---- MODULE Spec2Model ----
(***************************************************************************)
(* The Environment view of a project manifest (src/project/environment.rs) *)
(* as a state machine.  The manifest is parsed once and never changes; an  *)
(* Environment borrows the project and one manifest environment, and every *)
(* method is a query that computes its answer from the manifest.  A state  *)
(* is the manifest, the environment, the last query made and its result.   *)
(***************************************************************************)
EXTENDS Integers, Sequences, FiniteSets, TLC

VARIABLES project, environment, query, result

vars == <<project, environment, query, result>>

----------------------------------------------------------------------------
(* Option<T>: None is the empty set, Some(x) the singleton {x}.            *)

None == {}

Some(x) == {x}

unwrap(o) == CHOOSE x \in o : TRUE

unwrap_or(o, d) == IF o = None THEN d ELSE unwrap(o)

(* Option::or *)
or(o, other) == IF o = None THEN other ELSE o

Ok(v) == [tag |-> "Ok", value |-> v]

Err(e) == [tag |-> "Err", error |-> e]

----------------------------------------------------------------------------
(* Sequence helpers for the iterator pipelines.                            *)

RECURSIVE flatten(_)
flatten(ss) == IF ss = <<>> THEN <<>> ELSE Head(ss) \o flatten(Tail(ss))

RECURSIVE rev(_)
rev(s) == IF s = <<>> THEN <<>> ELSE Append(rev(Tail(s)), Head(s))

map(s, Op(_)) == [i \in 1..Len(s) |-> Op(s[i])]

(* the payloads of the Some elements of a sequence of options, in order *)
RECURSIVE somes(_)
somes(s) ==
    IF s = <<>> THEN <<>>
    ELSE (IF Head(s) = None THEN <<>> ELSE <<unwrap(Head(s))>>) \o somes(Tail(s))

filter_map(s, Op(_)) == somes(map(s, Op))

Range(s) == {s[i] : i \in 1..Len(s)}

----------------------------------------------------------------------------
(* The manifest data.                                                      *)

Platform == {"linux-64", "osx-64", "win-64"}

Default == <<"Default">>

Named(n) == <<"Named", n>>

FeatureNames == {"foo", "bar"}

EmptyTarget ==
    [tasks |-> <<>>, activation |-> None, dependencies |-> <<>>,
     pypi_dependencies |-> None]

EmptyTargets == [default_target |-> EmptyTarget, targets |-> <<>>]

EmptyFeature(name) ==
    [name |-> name, channels |-> None, platforms |-> None,
     targets |-> EmptyTargets]

----------------------------------------------------------------------------
(* Environment::features                                                   *)

default_feature == project.features[Default]

(* the default feature chained in front of the named ones *)
features_default_first ==
    <<default_feature>>
        \o map(environment.features, LAMBDA n : project.features[Named(n)])

features ==
    map(environment.features, LAMBDA n : project.features[Named(n)])
        \o <<default_feature>>

----------------------------------------------------------------------------
(* Environment::channels                                                   *)

(* the comparison the other way round: a.cmp(&b), lower priority first *)
cmp_priority_ascending(a, b) ==
    LET pa == unwrap_or(a.priority, 0)
        pb == unwrap_or(b.priority, 0)
    IN  IF pa < pb THEN "Less" ELSE IF pb = pa THEN "Equal" ELSE "Greater"

(* the comparator of sorted_by: Less when a sorts before b *)
cmp_priority(a, b) ==
    LET pa == unwrap_or(a.priority, 0)
        pb == unwrap_or(b.priority, 0)
    IN  IF pb < pa THEN "Less" ELSE IF pb = pa THEN "Equal" ELSE "Greater"

(* a stable sort: an element goes after every element it does not precede *)
RECURSIVE insert_sorted(_, _)
insert_sorted(s, x) ==
    IF s = <<>> THEN <<x>>
    ELSE IF cmp_priority(x, Head(s)) = "Less" THEN <<x>> \o s
         ELSE <<Head(s)>> \o insert_sorted(Tail(s), x)

RECURSIVE sorted_by(_)
sorted_by(s) ==
    IF s = <<>> THEN <<>>
    ELSE insert_sorted(sorted_by(SubSeq(s, 1, Len(s) - 1)), s[Len(s)])

(* collecting into an IndexSet keeps the first occurrence of each element *)
RECURSIVE collect_index_set(_)
collect_index_set(s) ==
    IF s = <<>> THEN <<>>
    ELSE LET init == collect_index_set(SubSeq(s, 1, Len(s) - 1))
             x == s[Len(s)]
         IN  IF x \in Range(init) THEN init ELSE Append(init, x)

(* every feature without channels falling back to the project's channels *)
feature_channels_all_fall_back(feature) ==
    or(feature.channels, Some(project.channels))

feature_channels(feature) ==
    IF feature.name = Default
    THEN or(feature.channels, Some(project.channels))
    ELSE feature.channels

channels ==
    collect_index_set(
        map(sorted_by(flatten(filter_map(features, feature_channels))),
            LAMBDA pc : pc.channel))

----------------------------------------------------------------------------
(* Environment::platforms                                                  *)

feature_platforms(feature) ==
    IF feature.platforms # None THEN unwrap(feature.platforms)
    ELSE project.platforms

(* the reduction joining the platform sets instead of intersecting them *)
RECURSIVE reduce_union(_)
reduce_union(s) ==
    IF s = <<>> THEN None
    ELSE IF Len(s) = 1 THEN Some(s[1])
    ELSE Some(unwrap(reduce_union(SubSeq(s, 1, Len(s) - 1))) \cup s[Len(s)])

(* Iterator::reduce with set intersection; None for an empty iterator *)
RECURSIVE reduce_intersection(_)
reduce_intersection(s) ==
    IF s = <<>> THEN None
    ELSE IF Len(s) = 1 THEN Some(s[1])
    ELSE Some(unwrap(reduce_intersection(SubSeq(s, 1, Len(s) - 1))) \cap s[Len(s)])

platforms == unwrap_or(reduce_intersection(map(features, feature_platforms)), {})

(* the validation against the project's platforms, not the environment's *)
validate_against_project(platform) ==
    IF platform # None /\ unwrap(platform) \notin project.platforms
    THEN Err([kind |-> "UnsupportedPlatformError",
              environments_platforms |-> project.platforms,
              environment |-> environment.name,
              platform |-> unwrap(platform)])
    ELSE Ok(<<>>)

(* Environment::validate_platform_support *)
validate_platform_support(platform) ==
    IF platform # None /\ unwrap(platform) \notin platforms
    THEN Err([kind |-> "UnsupportedPlatformError",
              environments_platforms |-> platforms,
              environment |-> environment.name,
              platform |-> unwrap(platform)])
    ELSE Ok(<<>>)

----------------------------------------------------------------------------
(* Targets::resolve: the targets that apply to a platform, the most        *)
(* specific first and the default target last; without a platform only the *)
(* default target.                                                         *)

resolve(targets, platform) ==
    IF platform = None THEN <<targets.default_target>>
    ELSE (IF unwrap(platform) \in DOMAIN targets.targets
          THEN <<targets.targets[unwrap(platform)]>>
          ELSE <<>>) \o <<targets.default_target>>

----------------------------------------------------------------------------
(* Environment::tasks and Environment::task                                *)

(* an extend that keeps the entry already under a key *)
extend_keeping_first(a, b) ==
    [k \in DOMAIN a \cup DOMAIN b |-> IF k \in DOMAIN a THEN a[k] ELSE b[k]]

(* HashMap::extend: an entry inserted later replaces the one under its key *)
extend(a, b) ==
    [k \in DOMAIN a \cup DOMAIN b |-> IF k \in DOMAIN b THEN b[k] ELSE a[k]]

(* collecting (name, task) pairs into a HashMap, one map of pairs at a time *)
RECURSIVE collect_hash_map(_)
collect_hash_map(maps) ==
    IF maps = <<>> THEN <<>>
    ELSE extend(collect_hash_map(SubSeq(maps, 1, Len(maps) - 1)), maps[Len(maps)])

(* the targets taken in feature order, without the reversal *)
tasks_not_reversed(platform) ==
    IF validate_platform_support(platform).tag = "Err"
    THEN validate_platform_support(platform)
    ELSE Ok(collect_hash_map(
                map(flatten(map(features,
                                LAMBDA feature : resolve(feature.targets, platform))),
                    LAMBDA target : target.tasks)))

tasks(platform) ==
    LET valid == validate_platform_support(platform)
    IN  IF valid.tag = "Err" THEN valid
        ELSE Ok(collect_hash_map(
                    map(rev(flatten(map(features,
                                        LAMBDA feature :
                                            resolve(feature.targets, platform)))),
                        LAMBDA target : target.tasks)))

(* the lookup letting the error of tasks through unchanged *)
task_passing_error(name, platform) ==
    IF tasks(platform).tag = "Err" THEN tasks(platform)
    ELSE IF name \notin DOMAIN tasks(platform).value
    THEN Err([kind |-> "UnknownTask",
              environment |-> environment.name,
              platform |-> platform,
              task_name |-> name])
    ELSE Ok(tasks(platform).value[name])

(* the UnknownTask error also borrows the project, which never changes *)
task(name, platform) ==
    LET all == tasks(platform)
    IN  IF all.tag = "Err" \/ name \notin DOMAIN all.value
        THEN Err([kind |-> "UnknownTask",
                  environment |-> environment.name,
                  platform |-> platform,
                  task_name |-> name])
        ELSE Ok(all.value[name])

----------------------------------------------------------------------------
(* IndexMap: a sequence of <<key, value>> pairs with distinct keys, in     *)
(* insertion order.                                                        *)

Keys(m) == {m[i][1] : i \in 1..Len(m)}

IndexOf(m, k) == CHOOSE i \in 1..Len(m) : m[i][1] = k

Get(m, k) == m[IndexOf(m, k)][2]

(* IndexMap::insert: a present key keeps its place and takes the new value *)
insert(m, k, v) ==
    IF k \in Keys(m) THEN [m EXCEPT ![IndexOf(m, k)] = <<k, v>>]
    ELSE Append(m, <<k, v>>)

(* IndexMap::extend *)
RECURSIVE extend_map(_, _)
extend_map(m, pairs) ==
    IF pairs = <<>> THEN m
    ELSE extend_map(insert(m, Head(pairs)[1], Head(pairs)[2]), Tail(pairs))

----------------------------------------------------------------------------
(* Feature::dependencies, Feature::pypi_dependencies and                   *)
(* Feature::activation_scripts: what one feature declares for a platform.  *)
(* The targets that apply are resolved as for tasks; for dependencies the  *)
(* requirement of a more specific target replaces, package by package, the *)
(* one of a less specific target.                                          *)

SpecType == {"Run", "Host", "Build"}

(* Target::dependencies: one kind's table or, without a kind, all of them *)
target_dependencies(target, kind) ==
    LET table(k) == IF k \in DOMAIN target.dependencies
                    THEN target.dependencies[k] ELSE <<>>
        all == extend_map(extend_map(table("Run"), table("Host")), table("Build"))
        deps == IF kind = None THEN all ELSE table(unwrap(kind))
    IN  IF deps = <<>> THEN None ELSE Some(deps)

(* the tables of the targets, least specific first, laid over one another *)
RECURSIVE overlay(_)
overlay(tables) ==
    IF tables = <<>> THEN None
    ELSE IF Len(tables) = 1 THEN Some(tables[1])
    ELSE Some(extend_map(unwrap(overlay(SubSeq(tables, 1, Len(tables) - 1))),
                         tables[Len(tables)]))

feature_dependencies(feature, kind, platform) ==
    overlay(filter_map(rev(resolve(feature.targets, platform)),
                       LAMBDA t : target_dependencies(t, kind)))

feature_pypi_dependencies(feature, platform) ==
    overlay(filter_map(rev(resolve(feature.targets, platform)),
                       LAMBDA t : IF t.pypi_dependencies = None
                                     \/ t.pypi_dependencies = Some(<<>>)
                                  THEN None ELSE t.pypi_dependencies))

(* the scripts of the most specific target that declares any *)
feature_activation_scripts(feature, platform) ==
    LET declared == filter_map(resolve(feature.targets, platform),
                               LAMBDA t : t.activation)
    IN  IF declared = <<>> THEN None ELSE Some(Head(declared))

----------------------------------------------------------------------------
(* Dependencies: an IndexMap from a package name to its requirements.      *)

(* Dependencies::from: every package of the map with its one requirement *)
dependencies_from(deps) == [i \in 1..Len(deps) |-> <<deps[i][1], <<deps[i][2]>>>>]

(* entry(name).or_default(), then the requirements added at the end *)
entry_extend(acc, name, specs) ==
    IF name \in Keys(acc)
    THEN [acc EXCEPT ![IndexOf(acc, name)] = <<name, Get(acc, name) \o specs>>]
    ELSE Append(acc, <<name, specs>>)

(* Dependencies::union: the requirements of other after those of self *)
RECURSIVE union(_, _)
union(self, other) ==
    IF other = <<>> THEN self
    ELSE union(entry_extend(self, Head(other)[1], Head(other)[2]), Tail(other))

----------------------------------------------------------------------------
(* Environment::dependencies                                               *)

RECURSIVE reduce_union_dependencies(_)
reduce_union_dependencies(s) ==
    IF s = <<>> THEN None
    ELSE IF Len(s) = 1 THEN Some(s[1])
    ELSE Some(union(unwrap(reduce_union_dependencies(SubSeq(s, 1, Len(s) - 1))),
                    s[Len(s)]))

(* the query validating the platform first, as tasks does *)
dependencies_validated(kind, platform) ==
    IF validate_platform_support(platform).tag = "Err"
    THEN validate_platform_support(platform)
    ELSE Ok(unwrap_or(
                reduce_union_dependencies(
                    map(filter_map(features,
                                   LAMBDA f : feature_dependencies(f, kind, platform)),
                        dependencies_from)),
                <<>>))

(* the value is wrapped where the call returns: Dependencies is no Result *)
dependencies(kind, platform) ==
    Ok(unwrap_or(
           reduce_union_dependencies(
               map(filter_map(features,
                              LAMBDA f : feature_dependencies(f, kind, platform)),
                   dependencies_from)),
           <<>>))

----------------------------------------------------------------------------
(* Environment::pypi_dependencies                                          *)

(* the requirement of a later feature put in the place of the earlier ones *)
RECURSIVE add_requirements_replacing(_, _)
add_requirements_replacing(acc, deps) ==
    IF deps = <<>> THEN acc
    ELSE add_requirements_replacing(insert(acc, Head(deps)[1], <<Head(deps)[2]>>),
                                    Tail(deps))

(* for (name, spec) in deps_iter { acc.entry(name).or_default().push(spec) } *)
RECURSIVE add_requirements(_, _)
add_requirements(acc, deps) ==
    IF deps = <<>> THEN acc
    ELSE add_requirements(entry_extend(acc, Head(deps)[1], <<Head(deps)[2]>>),
                          Tail(deps))

RECURSIVE fold_requirements(_, _)
fold_requirements(acc, s) ==
    IF s = <<>> THEN acc
    ELSE fold_requirements(add_requirements(acc, Head(s)), Tail(s))

pypi_dependencies(platform) ==
    fold_requirements(
        <<>>,
        filter_map(features, LAMBDA f : feature_pypi_dependencies(f, platform)))

----------------------------------------------------------------------------
(* Environment::activation_scripts                                         *)

(* the scripts gathered from the features in reverse, Default first *)
activation_scripts_default_first(platform) ==
    flatten(filter_map(rev(features),
                       LAMBDA f : feature_activation_scripts(f, platform)))

activation_scripts(platform) ==
    flatten(filter_map(features,
                       LAMBDA f : feature_activation_scripts(f, platform)))

----------------------------------------------------------------------------
(* The queries.  Each is one method call on the Environment view: it       *)
(* records the call and its return value and leaves the manifest alone.    *)
(* A method whose return type is no Result always returns normally: its    *)
(* value is recorded as Ok(value), next to the Ok and Err of the others.   *)

NoQuery == [op |-> "none"]

call_channels ==
    /\ query' = [op |-> "channels"]
    /\ result' = Ok(channels)
    /\ UNCHANGED <<project, environment>>

call_platforms ==
    /\ query' = [op |-> "platforms"]
    /\ result' = Ok(platforms)
    /\ UNCHANGED <<project, environment>>

call_tasks(platform) ==
    /\ query' = [op |-> "tasks", platform |-> platform]
    /\ result' = tasks(platform)
    /\ UNCHANGED <<project, environment>>

call_task(name, platform) ==
    /\ query' = [op |-> "task", name |-> name, platform |-> platform]
    /\ result' = task(name, platform)
    /\ UNCHANGED <<project, environment>>

call_dependencies(kind, platform) ==
    /\ query' = [op |-> "dependencies", kind |-> kind, platform |-> platform]
    /\ result' = dependencies(kind, platform)
    /\ UNCHANGED <<project, environment>>

call_pypi_dependencies(platform) ==
    /\ query' = [op |-> "pypi_dependencies", platform |-> platform]
    /\ result' = Ok(pypi_dependencies(platform))
    /\ UNCHANGED <<project, environment>>

call_activation_scripts(platform) ==
    /\ query' = [op |-> "activation_scripts", platform |-> platform]
    /\ result' = Ok(activation_scripts(platform))
    /\ UNCHANGED <<project, environment>>

----------------------------------------------------------------------------
(* Manifests.  The inputs are bounded by the number of entries declared.   *)

MaxChannelEntries == 3

Channel == {"conda-forge", "nvidia"}

Priority == {None, Some(0), Some(1)}

PrioritizedChannel == [channel : Channel, priority : Priority]

SeqsUpTo(S, n) == UNION {[1..k -> S] : k \in 0..n}

OptSeqsUpTo(S, n) == {None} \cup {Some(l) : l \in SeqsUpTo(S, n)}

OptLen(o) == IF o = None THEN 0 ELSE Len(unwrap(o))

(* an environment lists named features, each at most once *)
EnvironmentFeatures ==
    {l \in SeqsUpTo(FeatureNames, Cardinality(FeatureNames)) :
        \A i, j \in 1..Len(l) : i # j => l[i] # l[j]}

ProjectPlatforms == {"linux-64", "osx-64"}

WithChannels(name, chans) == [EmptyFeature(name) EXCEPT !.channels = chans]

(* the channel lists a feature may declare; a feature that the environment *)
(* does not list declares nothing                                          *)
FeatureChannels(fs, n, left) ==
    IF n \in Range(fs) THEN OptSeqsUpTo(PrioritizedChannel, left) ELSE {None}

InitChannels ==
    \E fs \in EnvironmentFeatures :
    \E pc \in SeqsUpTo(PrioritizedChannel, MaxChannelEntries) :
    \E dc \in OptSeqsUpTo(PrioritizedChannel, MaxChannelEntries - Len(pc)) :
    \E fc \in FeatureChannels(fs, "foo", MaxChannelEntries - Len(pc) - OptLen(dc)) :
    \E bc \in FeatureChannels(fs, "bar",
                              MaxChannelEntries - Len(pc) - OptLen(dc) - OptLen(fc)) :
        /\ environment = [name |-> "env", features |-> fs]
        /\ project =
               [channels |-> pc,
                platforms |-> ProjectPlatforms,
                features |->
                    (Default :> WithChannels(Default, dc))
                    @@ (Named("foo") :> WithChannels(Named("foo"), fc))
                    @@ (Named("bar") :> WithChannels(Named("bar"), bc))]
        /\ query = NoQuery
        /\ result = None

NextChannels == call_channels

SpecChannels == InitChannels /\ [][NextChannels]_vars

----------------------------------------------------------------------------
(* Channel aggregation.                                                    *)

(* the named features the environment lists, as declared in the manifest *)
ListedNamed == {project.features[Named(n)] : n \in Range(environment.features)}

(* the concatenation of the contributing channel lists *)
ChannelEntries == flatten(filter_map(features, feature_channels))

Effective(e) == IF e.priority = None THEN 0 ELSE unwrap(e.priority)

Max(S) == CHOOSE x \in S : \A y \in S : y <= x

Min(S) == CHOOSE x \in S : \A y \in S : x <= y

(* the highest priority among the entries of channel c in the entries es *)
BestPriority(es, c) ==
    Max({Effective(es[k]) : k \in {i \in 1..Len(es) : es[i].channel = c}})

(* the earliest entry of c among its entries of highest priority *)
FirstBest(es, c) ==
    Min({k \in 1..Len(es) :
            es[k].channel = c /\ Effective(es[k]) = BestPriority(es, c)})

Position(r, c) == CHOOSE i \in 1..Len(r) : r[i] = c

(* C2: channels(env) is the concatenation of the contributing lists, stably
   sorted by priority descending (absent = 0), deduplicated keeping the first
   occurrence: no duplicates, exactly the channels listed, and each channel
   stands where its earliest highest-priority entry sorts. *)
C2_SortedDeduplicated ==
    query.op = "channels" =>
        LET es == ChannelEntries
            best == [c \in Range(result.value) |-> BestPriority(es, c)]
            first == [c \in Range(result.value) |-> FirstBest(es, c)]
        IN  /\ \A i, j \in 1..Len(result.value) : i # j => result.value[i] # result.value[j]
            /\ Range(result.value) = {es[k].channel : k \in 1..Len(es)}
            /\ \A i, j \in 1..Len(result.value) :
                   i < j =>
                       \/ best[result.value[i]] > best[result.value[j]]
                       \/ /\ best[result.value[i]] = best[result.value[j]]
                          /\ first[result.value[i]] < first[result.value[j]]

(* a channel listed twice whose later entry has the higher priority, next to
   a tie between an absent priority and an explicit 0 *)
C2_Witness ==
    /\ query.op = "channels"
    /\ Len(result.value) = 2
    /\ \E k, l \in 1..Len(ChannelEntries) :
           /\ k < l
           /\ ChannelEntries[k].channel = ChannelEntries[l].channel
           /\ Effective(ChannelEntries[k]) < Effective(ChannelEntries[l])
           /\ result.value[1] = ChannelEntries[l].channel
    /\ \E k, l \in 1..Len(ChannelEntries) :
           /\ ChannelEntries[k].channel # ChannelEntries[l].channel
           /\ ChannelEntries[k].priority = None
           /\ ChannelEntries[l].priority = Some(0)

(* the channels the named features of the environment list explicitly *)
ExplicitChannels ==
    UNION {{unwrap(f.channels)[k].channel : k \in 1..OptLen(f.channels)} :
              f \in ListedNamed}

ProjectChannels == {project.channels[k].channel : k \in 1..Len(project.channels)}

DefaultOwnChannels ==
    {unwrap(project.features[Default].channels)[k].channel :
        k \in 1..OptLen(project.features[Default].channels)}

(* the channels that come from the project-wide default list alone *)
OnlyProjectDefault ==
    IF project.features[Default].channels = None
    THEN ProjectChannels \ ExplicitChannels
    ELSE {}

(* C3: every channel of a named feature's explicit list stands before every
   channel that comes only from the project-wide default list. *)
C3_DefaultsLast ==
    query.op = "channels" =>
        \A a \in ExplicitChannels : \A b \in OnlyProjectDefault :
            Position(result.value, a) < Position(result.value, b)

(* C9: the project-wide channel list is used for the Default feature alone,
   and only when it declares no channels: the result holds the explicit
   channels of the listed named features and either the Default feature's own
   channels or, when it has none, the project's. *)
C9_DefaultOnlyFallback ==
    query.op = "channels" =>
        Range(result.value) =
            ExplicitChannels \cup
                (IF project.features[Default].channels = None
                 THEN ProjectChannels
                 ELSE DefaultOwnChannels)

(* a listed named feature without channels and a Default feature with its
   own: the project's channel is not in the result *)
C9_Witness ==
    /\ query.op = "channels"
    /\ \E f \in ListedNamed : f.channels = None
    /\ project.features[Default].channels # None
    /\ DefaultOwnChannels # {}
    /\ ProjectChannels \ Range(result.value) # {}

----------------------------------------------------------------------------
(* Manifests that vary the platforms of the project and of the features.   *)

OptPlatforms == {None} \cup {Some(ps) : ps \in SUBSET Platform}

WithPlatforms(name, ps) == [EmptyFeature(name) EXCEPT !.platforms = ps]

FeaturePlatformChoices(fs, n) == IF n \in Range(fs) THEN OptPlatforms ELSE {None}

InitPlatforms ==
    \E fs \in EnvironmentFeatures :
    \E pp \in SUBSET Platform :
    \E dp \in OptPlatforms :
    \E fp \in FeaturePlatformChoices(fs, "foo") :
    \E bp \in FeaturePlatformChoices(fs, "bar") :
        /\ environment = [name |-> "env", features |-> fs]
        /\ project =
               [channels |-> <<>>,
                platforms |-> pp,
                features |->
                    (Default :> WithPlatforms(Default, dp))
                    @@ (Named("foo") :> WithPlatforms(Named("foo"), fp))
                    @@ (Named("bar") :> WithPlatforms(Named("bar"), bp))]
        /\ query = NoQuery
        /\ result = None

OptPlatform == {None} \cup {Some(p) : p \in Platform}

NextPlatforms ==
    \/ call_platforms
    \/ \E p \in OptPlatform : call_tasks(p)

SpecPlatforms == InitPlatforms /\ [][NextPlatforms]_vars

----------------------------------------------------------------------------
(* Platform compatibility.                                                 *)

(* the features that make up the environment *)
Composing == ListedNamed \cup {project.features[Default]}

Supports(f, p) ==
    IF f.platforms = None THEN p \in project.platforms
    ELSE p \in unwrap(f.platforms)

SupportedPlatforms == {p \in Platform : \A f \in Composing : Supports(f, p)}

(* C8: platforms(env) is the intersection over every composing feature,
   Default included, of its explicit platform set or, without one, the
   project's: a platform is in it iff every feature supports it. *)
C8_PlatformIntersection ==
    query.op = "platforms" =>
        /\ result.value = SupportedPlatforms
        /\ \A f \in Composing : \A p \in result.value : Supports(f, p)

(* features with different explicit sets and one that falls back on the
   project's, none of which is the result *)
C8_Witness ==
    /\ query.op = "platforms"
    /\ result.value # {}
    /\ \E f \in Composing : f.platforms = None
    /\ \E f, g \in Composing :
           /\ f.platforms # None /\ g.platforms # None
           /\ f.platforms # g.platforms
           /\ unwrap(f.platforms) # result.value /\ unwrap(g.platforms) # result.value
    /\ project.platforms # result.value

(* C5: tasks(env, platform) is an error exactly when platform is Some(p)
   with p outside platforms(env); the error names the environment, p and the
   supported platforms of the environment.  Without a platform it succeeds. *)
C5_UnsupportedPlatform ==
    query.op = "tasks" =>
        /\ result.tag = "Err" <=>
               /\ query.platform # None
               /\ unwrap(query.platform) \notin SupportedPlatforms
        /\ result.tag = "Err" =>
               /\ result.error.kind = "UnsupportedPlatformError"
               /\ result.error.environment = environment.name
               /\ result.error.platform = unwrap(query.platform)
               /\ result.error.environments_platforms = SupportedPlatforms
        /\ query.platform = None => result.tag = "Ok"

(* a platform of the project that a feature of the environment rules out *)
C5_Witness ==
    /\ query.op = "tasks"
    /\ result.tag = "Err"
    /\ query.platform # None
    /\ unwrap(query.platform) \in project.platforms
    /\ SupportedPlatforms # {}
    /\ SupportedPlatforms # project.platforms

----------------------------------------------------------------------------
(* Manifests that vary the task tables.  A slot is one place where a task  *)
(* can be defined: a feature, one of its targets, a task name.  Each       *)
(* definition is a command that tells where it was defined.                *)

MaxTaskDefs == 3

TaskName == {"build", "test"}

TaskPlatforms == {"linux-64", "osx-64"}

DefaultTarget == "default"

TargetKeys == {DefaultTarget} \cup TaskPlatforms

FeatureKeys(fs) == {Default} \cup {Named(n) : n \in Range(fs)}

TaskSlots(fs) == FeatureKeys(fs) \X TargetKeys \X TaskName

(* the subsets of S with at most k elements *)
RECURSIVE SubsetsUpTo(_, _)
SubsetsUpTo(S, k) ==
    IF k = 0 THEN {{}}
    ELSE LET smaller == SubsetsUpTo(S, k - 1)
         IN  smaller \cup {T \cup {x} : T \in smaller, x \in S}

TaskAt(f, t, n) == [command |-> <<"echo", f, t, n>>]

TargetWithTasks(defs, f, t) ==
    [EmptyTarget EXCEPT
        !.tasks = [n \in {m \in TaskName : <<f, t, m>> \in defs} |-> TaskAt(f, t, n)]]

FeatureWithTasks(defs, f, ps) ==
    [name |-> f, channels |-> None, platforms |-> ps,
     targets |->
        [default_target |-> TargetWithTasks(defs, f, DefaultTarget),
         targets |->
            [p \in {q \in TaskPlatforms : \E n \in TaskName : <<f, q, n>> \in defs}
                |-> TargetWithTasks(defs, f, p)]]]

InitTasks ==
    \E fs \in EnvironmentFeatures :
    \E pp \in {{"linux-64"}, {"linux-64", "osx-64"}} :
    \E defs \in SubsetsUpTo(TaskSlots(fs), MaxTaskDefs) :
        /\ environment = [name |-> "env", features |-> fs]
        /\ project =
               [channels |-> <<>>,
                platforms |-> pp,
                features |->
                    (Default :> FeatureWithTasks(defs, Default, None))
                    @@ (Named("foo") :> FeatureWithTasks(defs, Named("foo"), None))
                    @@ (Named("bar") :> FeatureWithTasks(defs, Named("bar"), None))]
        /\ query = NoQuery
        /\ result = None

OptTaskPlatform == {None} \cup {Some(p) : p \in TaskPlatforms}

NextTasks ==
    \/ \E p \in OptTaskPlatform : call_tasks(p)
    \/ \E n \in TaskName : \E p \in OptTaskPlatform : call_task(n, p)

SpecTasks == InitTasks /\ [][NextTasks]_vars

----------------------------------------------------------------------------
(* Task resolution.                                                        *)

(* the features of the environment by precedence: as listed, then Default *)
Precedence ==
    [i \in 1..(Len(environment.features) + 1) |->
        IF i <= Len(environment.features) THEN Named(environment.features[i])
        ELSE Default]

TargetTasks(f, t) ==
    IF t = DefaultTarget THEN project.features[f].targets.default_target.tasks
    ELSE IF t \in DOMAIN project.features[f].targets.targets
    THEN project.features[f].targets.targets[t].tasks
    ELSE <<>>

Defines(f, t, n) == n \in DOMAIN TargetTasks(f, t)

(* the first feature, by precedence, for which P holds *)
FirstFeature(P(_)) == Min({i \in DOMAIN Precedence : P(Precedence[i])})

AnyFeature(P(_)) == \E i \in DOMAIN Precedence : P(Precedence[i])

(* C1 as stated: a platform-specific definition in any feature wins over
   every scope-wide definition, the highest-precedence such feature first. *)
C1_PlatformSpecificFirst ==
    (query.op = "tasks" /\ query.platform # None /\ result.tag = "Ok") =>
        LET p == unwrap(query.platform)
        IN  \A n \in TaskName :
                /\ AnyFeature(LAMBDA f : Defines(f, p, n)) =>
                       /\ n \in DOMAIN result.value
                       /\ result.value[n] =
                              TargetTasks(Precedence[FirstFeature(LAMBDA f : Defines(f, p, n))],
                                          p)[n]
                /\ (/\ n \in DOMAIN result.value
                    /\ \E f \in Range(Precedence) :
                           /\ Defines(f, DefaultTarget, n)
                           /\ result.value[n] = TargetTasks(f, DefaultTarget)[n])
                   => ~AnyFeature(LAMBDA f : Defines(f, p, n))

(* C1, amended: for a supported platform p, tasks(env, p) takes n from the
   highest-precedence feature that defines n in a target applicable to p;
   it is that feature's p-specific definition whenever the feature has one,
   and its scope-wide definition only when it has none. *)
C1_FeatureFirstThenPlatform ==
    (query.op = "tasks" /\ query.platform # None /\ result.tag = "Ok") =>
        LET p == unwrap(query.platform)
            Applies(f, n) == Defines(f, p, n) \/ Defines(f, DefaultTarget, n)
        IN  \A n \in TaskName :
                IF AnyFeature(LAMBDA f : Applies(f, n))
                THEN LET f == Precedence[FirstFeature(LAMBDA g : Applies(g, n))]
                     IN  /\ n \in DOMAIN result.value
                         /\ Defines(f, p, n) => result.value[n] = TargetTasks(f, p)[n]
                         /\ ~Defines(f, p, n) =>
                                result.value[n] = TargetTasks(f, DefaultTarget)[n]
                ELSE n \notin DOMAIN result.value

(* a scope-wide definition of a listed feature next to a platform-specific
   one of a feature of lower precedence: the scope-wide one is returned *)
C1_Witness ==
    /\ query.op = "tasks" /\ query.platform # None /\ result.tag = "Ok"
    /\ \E n \in TaskName : \E i, j \in DOMAIN Precedence :
           /\ i < j
           /\ Defines(Precedence[i], DefaultTarget, n)
           /\ ~Defines(Precedence[i], unwrap(query.platform), n)
           /\ Defines(Precedence[j], unwrap(query.platform), n)
           /\ n \in DOMAIN result.value
           /\ result.value[n] = TargetTasks(Precedence[i], DefaultTarget)[n]

(* C6: task(env, name, platform) is UnknownTask, with the environment, the
   platform and the name, exactly when tasks(env, platform) is an error or
   has no such name, an unsupported platform included; otherwise it is the
   task that tasks(env, platform) maps the name to. *)
C6_UnknownTask ==
    query.op = "task" =>
        LET all == tasks(query.platform)
            unknown ==
                \/ query.platform # None /\ unwrap(query.platform) \notin SupportedPlatforms
                \/ all.tag = "Err"
                \/ query.name \notin DOMAIN all.value
        IN  /\ result.tag = "Err" <=> unknown
            /\ result.tag = "Err" =>
                   /\ result.error.kind = "UnknownTask"
                   /\ result.error.environment = environment.name
                   /\ result.error.platform = query.platform
                   /\ result.error.task_name = query.name
            /\ result.tag = "Ok" => result.value = all.value[query.name]

(* a task the manifest defines, asked for on an unsupported platform *)
C6_Witness ==
    /\ query.op = "task"
    /\ result.tag = "Err"
    /\ result.error.kind = "UnknownTask"
    /\ query.platform # None
    /\ unwrap(query.platform) \notin SupportedPlatforms
    /\ \E f \in Range(Precedence) : \E t \in TargetKeys : Defines(f, t, query.name)

----------------------------------------------------------------------------
(* Manifests that vary the dependency tables: [dependencies] tables of the *)
(* features and their linux-64 targets, or [pypi-dependencies] tables.     *)

MaxRequirements == 2

Package == <<"foo", "bar">>

Requirement == {">=1.0", "<2.0"}

DependencyPlatforms == {"linux-64"}

DependencySlots(fs) ==
    FeatureKeys(fs) \X ({DefaultTarget} \cup DependencyPlatforms) \X Range(Package)

(* the table of one target: its packages in the order they were written *)
Table(reqs, f, t) ==
    LET declared == SelectSeq(Package, LAMBDA n : <<f, t, n>> \in DOMAIN reqs)
    IN  [i \in 1..Len(declared) |-> <<declared[i], reqs[<<f, t, declared[i]>>]>>]

TargetWithDependencies(family, reqs, f, t) ==
    IF Table(reqs, f, t) = <<>> THEN EmptyTarget
    ELSE IF family = "conda"
    THEN [EmptyTarget EXCEPT !.dependencies = ("Run" :> Table(reqs, f, t))]
    ELSE [EmptyTarget EXCEPT !.pypi_dependencies = Some(Table(reqs, f, t))]

FeatureWithDependencies(family, reqs, f) ==
    [name |-> f, channels |-> None, platforms |-> None,
     targets |->
        [default_target |-> TargetWithDependencies(family, reqs, f, DefaultTarget),
         targets |->
            [p \in {q \in DependencyPlatforms :
                       \E n \in Range(Package) : <<f, q, n>> \in DOMAIN reqs}
                |-> TargetWithDependencies(family, reqs, f, p)]]]

InitDependencies ==
    \E fs \in EnvironmentFeatures :
    \E pp \in {{"linux-64"}, {"osx-64"}} :
    \E family \in {"conda", "pypi"} :
    \E slots \in SubsetsUpTo(DependencySlots(fs), MaxRequirements) :
    \E reqs \in [slots -> Requirement] :
        /\ environment = [name |-> "env", features |-> fs]
        /\ project =
               [channels |-> <<>>,
                platforms |-> pp,
                features |->
                    [f \in {Default, Named("foo"), Named("bar")} |->
                        FeatureWithDependencies(family, reqs, f)]]
        /\ query = NoQuery
        /\ result = None

OptDependencyPlatform == {None} \cup {Some(p) : p \in DependencyPlatforms}

OptSpecType == {None, Some("Run"), Some("Build")}

NextDependencies ==
    \/ \E k \in OptSpecType : \E p \in OptDependencyPlatform : call_dependencies(k, p)
    \/ \E p \in OptDependencyPlatform : call_pypi_dependencies(p)

SpecDependencies == InitDependencies /\ [][NextDependencies]_vars

----------------------------------------------------------------------------
(* Dependency aggregation.                                                 *)

DependencyQuery == query.op \in {"dependencies", "pypi_dependencies"}

(* what feature f declares for the kind and platform of the query *)
Contribution(f) ==
    IF query.op = "dependencies"
    THEN feature_dependencies(project.features[f], query.kind, query.platform)
    ELSE feature_pypi_dependencies(project.features[f], query.platform)

Declares(f, n) == Contribution(f) # None /\ n \in Keys(unwrap(Contribution(f)))

(* the requirements of package n, one of each feature that declares it, in
   order of precedence *)
Requirements(n) ==
    LET declaring == SelectSeq([i \in DOMAIN Precedence |-> Precedence[i]],
                               LAMBDA f : Declares(f, n))
    IN  [i \in 1..Len(declaring) |-> Get(unwrap(Contribution(declaring[i])), n)]

(* C7: dependencies and pypi_dependencies return, for each package, the
   requirements of every feature that declares it, one per feature, in
   features(env) order with Default last, nothing dropped, replaced or
   deduplicated; a package appears iff some feature declares it. *)
C7_EveryRequirementKept ==
    DependencyQuery =>
        /\ result.tag = "Ok"
        /\ \A i, j \in 1..Len(result.value) :
               i # j => result.value[i][1] # result.value[j][1]
        /\ Keys(result.value) =
               {n \in Range(Package) : \E f \in Range(Precedence) : Declares(f, n)}
        /\ \A n \in Keys(result.value) : Get(result.value, n) = Requirements(n)

(* a named feature and the Default feature declare the same requirement of
   the same package: it is returned twice *)
C7_Witness ==
    /\ DependencyQuery
    /\ \E n \in Keys(result.value) : \E f \in Range(Precedence) \ {Default} :
           /\ Declares(f, n) /\ Declares(Default, n)
           /\ Get(unwrap(Contribution(f)), n) = Get(unwrap(Contribution(Default)), n)
           /\ Len(Get(result.value, n)) = 2
           /\ Get(result.value, n)[1] = Get(result.value, n)[2]

TargetOf(f, t) ==
    IF t = DefaultTarget THEN project.features[f].targets.default_target
    ELSE IF t \in DOMAIN project.features[f].targets.targets
    THEN project.features[f].targets.targets[t]
    ELSE EmptyTarget

(* target t of feature f has a requirement of package n in a table that the
   query reads *)
InTable(f, t, n) ==
    IF query.op = "dependencies"
    THEN \E k \in DOMAIN TargetOf(f, t).dependencies :
             /\ query.kind = None \/ query.kind = Some(k)
             /\ n \in Keys(TargetOf(f, t).dependencies[k])
    ELSE /\ TargetOf(f, t).pypi_dependencies # None
         /\ n \in Keys(unwrap(TargetOf(f, t).pypi_dependencies))

UnsupportedFilter ==
    /\ DependencyQuery
    /\ query.platform # None
    /\ unwrap(query.platform) \notin SupportedPlatforms

(* C4 as stated: a dependency query with a platform filter outside
   platforms(env) fails with UnsupportedPlatformError. *)
C4_DependencyQueryFails ==
    UnsupportedFilter =>
        /\ result.tag = "Err"
        /\ result.error.kind = "UnsupportedPlatformError"

(* C4, amended: a dependency query does not validate its platform filter;
   for p outside platforms(env) it returns, without an error, the packages
   that the features declare for p or scope-wide. *)
C4_DependencyQueryUnvalidated ==
    UnsupportedFilter =>
        /\ result.tag = "Ok"
        /\ Keys(result.value) =
               {n \in Range(Package) :
                   \E f \in Range(Precedence) :
                   \E t \in {DefaultTarget, unwrap(query.platform)} : InTable(f, t, n)}

(* a requirement declared for a platform the environment does not support,
   returned by the query for that platform *)
C4_Witness ==
    /\ UnsupportedFilter
    /\ result.tag = "Ok"
    /\ \E n \in Keys(result.value) : \E f \in Range(Precedence) :
           /\ InTable(f, unwrap(query.platform), n)
           /\ ~InTable(f, DefaultTarget, n)

----------------------------------------------------------------------------
(* Manifests that vary the activation scripts of the features and of their *)
(* linux-64 targets.  Every script tells where it was declared.            *)

MaxScripts == 2

ActivationPlatforms == {"linux-64"}

ActivationSlots(fs) == FeatureKeys(fs) \X ({DefaultTarget} \cup ActivationPlatforms)

(* no [activation] table, or one with 0..MaxScripts scripts *)
ScriptCounts == {None} \cup {Some(k) : k \in 0..MaxScripts}

Scripts(counts, f, t) ==
    IF <<f, t>> \notin DOMAIN counts \/ counts[<<f, t>>] = None THEN None
    ELSE Some([i \in 1..unwrap(counts[<<f, t>>]) |-> <<"script", f, t, i>>])

TargetWithActivation(counts, f, t) ==
    [EmptyTarget EXCEPT !.activation = Scripts(counts, f, t)]

FeatureWithActivation(counts, f) ==
    [name |-> f, channels |-> None, platforms |-> None,
     targets |->
        [default_target |-> TargetWithActivation(counts, f, DefaultTarget),
         targets |->
            [p \in {q \in ActivationPlatforms : Scripts(counts, f, q) # None}
                |-> TargetWithActivation(counts, f, p)]]]

InitActivation ==
    \E fs \in EnvironmentFeatures :
    \E counts \in [ActivationSlots(fs) -> ScriptCounts] :
        /\ environment = [name |-> "env", features |-> fs]
        /\ project =
               [channels |-> <<>>,
                platforms |-> {"linux-64", "osx-64"},
                features |->
                    [f \in {Default, Named("foo"), Named("bar")} |->
                        FeatureWithActivation(counts, f)]]
        /\ query = NoQuery
        /\ result = None

OptActivationPlatform == {None} \cup {Some(p) : p \in ActivationPlatforms}

NextActivation == \E p \in OptActivationPlatform : call_activation_scripts(p)

SpecActivation == InitActivation /\ [][NextActivation]_vars

----------------------------------------------------------------------------
(* Activation scripts.                                                     *)

(* the scripts feature f gives for the platform of the query: those of its
   platform target when that declares any, else those of its default target *)
ScriptsOf(f) ==
    LET specific == IF query.platform = None THEN None
                    ELSE TargetOf(f, unwrap(query.platform)).activation
        general == TargetOf(f, DefaultTarget).activation
    IN  IF specific # None THEN unwrap(specific)
        ELSE IF general # None THEN unwrap(general)
        ELSE <<>>

RECURSIVE Concatenation(_)
Concatenation(fs) ==
    IF fs = <<>> THEN <<>> ELSE ScriptsOf(Head(fs)) \o Concatenation(Tail(fs))

(* C10: activation_scripts(env, platform) is the concatenation, in
   features(env) order with Default last, of each feature's scripts; a
   feature's platform-specific list replaces its scope-wide list, and
   without a platform only scope-wide lists are used. *)
C10_ScriptsConcatenated ==
    query.op = "activation_scripts" =>
        /\ result.tag = "Ok"
        /\ result.value = Concatenation(Precedence)

(* a named feature and the Default feature both give scripts, and one of
   them has a platform-specific list in place of its scope-wide one *)
C10_Witness ==
    /\ query.op = "activation_scripts"
    /\ query.platform # None
    /\ Len(environment.features) >= 1
    /\ ScriptsOf(Precedence[1]) # <<>>
    /\ ScriptsOf(Default) # <<>>
    /\ \E f \in Range(Precedence) :
           /\ TargetOf(f, unwrap(query.platform)).activation # None
           /\ TargetOf(f, DefaultTarget).activation \notin {None, Some(<<>>)}
           /\ Range(unwrap(TargetOf(f, DefaultTarget).activation))
                  \cap Range(result.value) = {}

----------------------------------------------------------------------------
(* The lock file flags of the command line (src/cli/mod.rs).               *)
(* LockFileUsageArgs is parsed from the arguments of a command, or built   *)
(* directly: it is a public struct with public fields and a Default.       *)

LockFileUsageArgs == [frozen : BOOLEAN, locked : BOOLEAN]

(* the conversion asking for locked before frozen *)
from_locked_first(value) ==
    IF value.locked THEN "Locked"
    ELSE IF value.frozen THEN "Frozen"
    ELSE "Update"

(* impl From<LockFileUsageArgs> for LockFileUsage *)
from(value) ==
    IF value.frozen THEN "Frozen"
    ELSE IF value.locked THEN "Locked"
    ELSE "Update"

Count(argv, flag) == Cardinality({i \in 1..Len(argv) : argv[i] = flag})

(* the outcomes of parsing the arguments: --frozen and --locked conflict   *)
(* with one another; whether a flag given twice is refused is up to the    *)
(* argument parser, so both outcomes are possible then.                    *)
parse(argv) ==
    LET frozen == Count(argv, "--frozen") > 0
        locked == Count(argv, "--locked") > 0
        repeated == Count(argv, "--frozen") > 1 \/ Count(argv, "--locked") > 1
        accepted == Ok([frozen |-> frozen, locked |-> locked])
    IN  IF frozen /\ locked THEN {Err([kind |-> "ArgumentConflict"])}
        ELSE IF repeated THEN {Err([kind |-> "ArgumentConflict"]), accepted}
        ELSE {accepted}

call_parse ==
    /\ query.op = "execute"
    /\ \E outcome \in parse(query.argv) :
           /\ query' = [op |-> "parse", argv |-> query.argv]
           /\ result' = outcome
    /\ UNCHANGED <<project, environment>>

(* the conversion of the arguments that were parsed *)
call_from_parsed ==
    /\ query.op = "parse"
    /\ result.tag = "Ok"
    /\ query' = [op |-> "from", value |-> result.value]
    /\ result' = Ok(from(result.value))
    /\ UNCHANGED <<project, environment>>

(* the conversion of arguments that no parser has seen *)
call_from(value) ==
    /\ query' = [op |-> "from", value |-> value]
    /\ result' = Ok(from(value))
    /\ UNCHANGED <<project, environment>>

MaxArgs == 4

Flag == {"--frozen", "--locked", "-v"}

InitLockFile ==
    \E argv \in SeqsUpTo(Flag, MaxArgs) :
        /\ environment = [name |-> "default", features |-> <<>>]
        /\ project = [channels |-> <<>>,
                      platforms |-> {},
                      features |-> (Default :> EmptyFeature(Default))]
        /\ query = [op |-> "execute", argv |-> argv]
        /\ result = None

NextLockFile ==
    \/ call_parse
    \/ call_from_parsed
    \/ \E value \in LockFileUsageArgs : call_from(value)

SpecLockFile == InitLockFile /\ [][NextLockFile]_vars

(* C11: the conversion from LockFileUsageArgs to LockFileUsage is total; it
   yields Update exactly when neither flag is set, Frozen when only frozen
   is set, Locked when only locked is set, and the single value Frozen when
   both are set; arguments that were parsed never have both flags set. *)
C11_LockFileUsage ==
    /\ query.op = "from" =>
           /\ result.tag = "Ok"
           /\ result.value \in {"Update", "Frozen", "Locked"}
           /\ result.value = "Update" <=> (~query.value.frozen /\ ~query.value.locked)
           /\ (query.value.frozen /\ ~query.value.locked) => result.value = "Frozen"
           /\ (query.value.locked /\ ~query.value.frozen) => result.value = "Locked"
           /\ (query.value.frozen /\ query.value.locked) => result.value = "Frozen"
    /\ (query.op = "parse" /\ result.tag = "Ok") =>
           ~(result.value.frozen /\ result.value.locked)

(* both flags set in arguments built without the parser: Frozen *)
C11_Witness ==
    /\ query.op = "from"
    /\ query.value.frozen /\ query.value.locked
    /\ result = Ok("Frozen")

----------------------------------------------------------------------------
(* The features of an environment. The manifest declares foo, bar and the  *)
(* default feature, each told apart by its platforms; the environment      *)
(* lists some of the named ones in an order of its own.                    *)

call_features ==
    /\ query' = [op |-> "features"]
    /\ result' = Ok(features)
    /\ UNCHANGED <<project, environment>>

DeclaredPlatforms == {None, Some({"linux-64"}), Some({"osx-64"})}

InitFeatures ==
    \E fs \in EnvironmentFeatures :
    \E dp \in DeclaredPlatforms :
    \E fp \in DeclaredPlatforms :
    \E bp \in DeclaredPlatforms :
        /\ environment = [name |-> "env", features |-> fs]
        /\ project =
               [channels |-> <<>>,
                platforms |-> {"linux-64", "osx-64"},
                features |->
                    (Default :> WithPlatforms(Default, dp))
                    @@ (Named("foo") :> WithPlatforms(Named("foo"), fp))
                    @@ (Named("bar") :> WithPlatforms(Named("bar"), bp))]
        /\ query = NoQuery
        /\ result = None

NextFeatures == call_features

SpecFeatures == InitFeatures /\ [][NextFeatures]_vars

(* C12: features(env) is the environment's named features in the declared
   order followed by the default feature: its length is the number of
   declared names plus one, its last element is the default feature, and
   the default feature occurs exactly once, also when no feature is
   declared. *)
C12_NamedThenDefault ==
    query.op = "features" =>
        LET fs == result.value
            declared == environment.features
        IN  /\ result.tag = "Ok"
            /\ Len(fs) = Len(declared) + 1
            /\ \A i \in 1..Len(declared) :
                   fs[i] = project.features[Named(declared[i])]
            /\ fs[Len(fs)] = project.features[Default]
            /\ Cardinality({i \in 1..Len(fs) : fs[i].name = Default}) = 1

(* two features declared against the order of their names, and a default   *)
(* feature with content of its own at the end                              *)
C12_Witness ==
    /\ query.op = "features"
    /\ environment.features = <<"foo", "bar">>
    /\ Len(result.value) = 3
    /\ result.value[1].name = Named("foo")
    /\ result.value[3].name = Default
    /\ result.value[3].platforms # None
    /\ result.value[3] # result.value[1]

----------------------------------------------------------------------------
(* The precedence of task definitions, a query without a platform included *)

(* the targets of a feature that apply to a query, most specific first *)
Applicable(platform) ==
    IF platform = None THEN <<DefaultTarget>>
    ELSE <<unwrap(platform), DefaultTarget>>

(* C13: for a supported platform p, tasks(env, p) takes the definition of a
   name from the highest-precedence feature of features(env) that defines
   it in a target applicable to p, platform-specific or scope-wide, and
   within that feature the p-specific definition wins over the scope-wide
   one; with no platform only scope-wide targets are consulted, and a
   platform-specific definition is never returned. *)
C13_HighestPrecedenceFeature ==
    (query.op = "tasks" /\ result.tag = "Ok") =>
        LET applicable == Applicable(query.platform)
            First(f, n) ==
                Min({k \in DOMAIN applicable : Defines(f, applicable[k], n)})
            DefinesAny(f, n) ==
                \E k \in DOMAIN applicable : Defines(f, applicable[k], n)
        IN  \A n \in TaskName :
                /\ n \in DOMAIN result.value <=>
                       AnyFeature(LAMBDA f : DefinesAny(f, n))
                /\ n \in DOMAIN result.value =>
                       LET f == Precedence[FirstFeature(LAMBDA g : DefinesAny(g, n))]
                       IN  result.value[n] =
                               TargetTasks(f, applicable[First(f, n)])[n]
                /\ (query.platform = None /\ n \in DOMAIN result.value) =>
                       \A i \in DOMAIN Precedence : \A t \in TaskPlatforms :
                           Defines(Precedence[i], t, n) =>
                               result.value[n] # TargetTasks(Precedence[i], t)[n]

(* the feature of highest precedence defines a name both for the platform  *)
(* and scope-wide, a later feature defines it for the platform as well:    *)
(* the platform-specific definition of the first feature is returned       *)
C13_Witness ==
    /\ query.op = "tasks" /\ query.platform # None /\ result.tag = "Ok"
    /\ \E n \in TaskName : \E i, j \in DOMAIN Precedence :
           /\ i < j
           /\ Defines(Precedence[i], unwrap(query.platform), n)
           /\ Defines(Precedence[i], DefaultTarget, n)
           /\ Defines(Precedence[j], unwrap(query.platform), n)
           /\ n \in DOMAIN result.value
           /\ result.value[n] = TargetTasks(Precedence[i], unwrap(query.platform))[n]

====
